---- MODULE Spec2Model ----
(***************************************************************************)
(* Model of the option pricers of src/back/pricer/options.py and of the    *)
(* Monte Carlo engine of src/back/pricer/monte_carlo.py.                   *)
(*                                                                         *)
(* Python floats are modelled as fixed-point numbers: the integer v stands *)
(* for the real v / SCALE.  Every arithmetic operator rounds to the        *)
(* nearest unit.  Money amounts are of order 1.0 so that products stay     *)
(* inside TLC's 32-bit integers.                                           *)
(***************************************************************************)
EXTENDS Integers, Sequences, FiniteSets, TLC

\* Resolution of the fixed-point numbers: 1.0 is SCALE.
SCALE == 10 ^ 4

Abs(a) == IF a < 0 THEN -a ELSE a

Max(a, b) == IF a >= b THEN a ELSE b

\* a * b on fixed-point numbers, rounded to the nearest unit.
Mul(a, b) ==
    LET ah == a \div SCALE
        al == a % SCALE
        bh == b \div SCALE
        bl == b % SCALE
    IN  ah * bh * SCALE + ah * bl + al * bh + (al * bl + SCALE \div 2) \div SCALE

\* a / b on fixed-point numbers (b # 0), rounded to the nearest unit.
Div(a, b) ==
    LET n == IF b < 0 THEN -a ELSE a
        d == Abs(b)
    IN  (n \div d) * SCALE + ((n % d) * SCALE + d \div 2) \div d

\* a / k for an integer k > 0.
DivInt(a, k) == (a + k \div 2) \div k

RECURSIVE IntSqrt(_, _, _)
\* Largest r in lo..hi with r * r <= n (bisection).
IntSqrt(n, lo, hi) ==
    IF lo >= hi THEN lo
    ELSE LET mid == (lo + hi + 1) \div 2
         IN  IF mid * mid <= n THEN IntSqrt(n, mid, hi) ELSE IntSqrt(n, lo, mid - 1)

\* math.sqrt(a) for a >= 0.
Sqrt(a) ==
    LET r == IntSqrt(a * SCALE, 0, 46340)
    IN  IF (r + 1) * (r + 1) - a * SCALE <= a * SCALE - r * r THEN r + 1 ELSE r

\* The exponential series on |x| <= 1/2, in Horner form:
\* 1 + x (1 + x/2 (1 + x/3 (1 + x/4 (1 + x/5 (1 + x/6))))).
ExpSeries(x) ==
    LET h6 == SCALE + DivInt(x, 6)
        h5 == SCALE + DivInt(Mul(x, h6), 5)
        h4 == SCALE + DivInt(Mul(x, h5), 4)
        h3 == SCALE + DivInt(Mul(x, h4), 3)
        h2 == SCALE + DivInt(Mul(x, h3), 2)
    IN  SCALE + Mul(x, h2)

RECURSIVE ExpHalving(_)
\* exp(x) = exp(h)^2 * exp(x - 2h) with h = x div 2, down to |x| <= 1/2.
ExpHalving(x) ==
    IF Abs(x) <= SCALE \div 2 THEN ExpSeries(x)
    ELSE LET h == x \div 2
             e == ExpHalving(h)
         IN  Mul(Mul(e, e), ExpSeries(x - 2 * h))

\* math.exp(x); below exp(-12) the result is under half a unit.
Exp(x) == IF x < -12 * SCALE THEN 0 ELSE ExpHalving(x)

\* ln x = 2 atanh(y) with y = (x - 1) / (x + 1), for x in [1/2, 2]:
\* 2 y (1 + y^2/3 + y^4/5 + ... + y^12/13) in Horner form.
LnSeries(x) ==
    LET y == Div(x - SCALE, x + SCALE)
        y2 == Mul(y, y)
        a13 == DivInt(SCALE, 13)
        a11 == DivInt(SCALE, 11) + Mul(y2, a13)
        a9 == DivInt(SCALE, 9) + Mul(y2, a11)
        a7 == DivInt(SCALE, 7) + Mul(y2, a9)
        a5 == DivInt(SCALE, 5) + Mul(y2, a7)
        a3 == DivInt(SCALE, 3) + Mul(y2, a5)
    IN  2 * Mul(y, SCALE + Mul(y2, a3))

RECURSIVE Ln(_)
\* math.log(x) for x > 0: reduced to [1/2, 2] by factors of e = 2.7183.
Ln(x) ==
    IF x > 2 * SCALE THEN SCALE + Ln(Div(x, 27183))
    ELSE IF 2 * x < SCALE THEN Ln(Mul(x, 27183)) - SCALE
    ELSE LnSeries(x)

\* int(x): truncation toward zero, the result an integer (not fixed-point).
Trunc(x) == IF x >= 0 THEN x \div SCALE ELSE -((-x) \div SCALE)

\* scipy.stats.norm.pdf(x) = exp(-x^2 / 2) / sqrt(2 pi).
NormPdf(x) == Mul(3989, Exp(-(Mul(x, x) \div 2)))

\* Tail polynomial of the normal distribution function for x >= 0.
NormTail(x) ==
    LET t  == Div(SCALE, SCALE + Mul(2316, x))
        p5 == 13303
        p4 == -18213 + Mul(t, p5)
        p3 == 17815 + Mul(t, p4)
        p2 == -3566 + Mul(t, p3)
        p1 == 3194 + Mul(t, p2)
    IN  Mul(NormPdf(x), Mul(t, p1))

\* scipy.stats.norm.cdf(x).
NormCdf(x) == IF x >= 0 THEN SCALE - NormTail(x) ELSE NormTail(-x)

(***************************************************************************)
(* Outcomes of a call: a value, or the exception that ended it.            *)
(***************************************************************************)
NoError == "none"

\* A call that returned v.
Ok(v) == [error |-> NoError, value |-> v, nan |-> FALSE]

\* A call that returned float("nan") (the mean of an empty array).
NaN == [error |-> NoError, value |-> 0, nan |-> TRUE]

\* A call that raised e.
Raise(e) == [error |-> e, value |-> 0, nan |-> FALSE]

\* x / k for a float x and an int k # 0 (k = 0 raises before this is used).
FloatOverInt(a, k) == IF k > 0 THEN DivInt(a, k) ELSE -DivInt(a, -k)

RECURSIVE Pow(_, _)
\* b ** e for an integer exponent e >= 0.
Pow(b, e) == IF e = 0 THEN SCALE ELSE Mul(b, Pow(b, e - 1))

(***************************************************************************)
(* class OptionType, BaseOption                                            *)
(***************************************************************************)
OptionType == {"call", "put"}

OptionClasses == {"EuropeanOption", "AmericanOption", "AsianOption", "BarrierOption"}

\* The object that does not exist (a failed construction leaves no instance).
NoObj == [cls |-> "None"]

\* __post_init__ with the comparisons written < instead of <=.
post_init_strict(o) ==
    IF o.spot < 0 THEN "spot"
    ELSE IF o.strike < 0 THEN "strike"
    ELSE IF o.maturity < 0 THEN "maturity"
    ELSE IF o.volatility < 0 THEN "volatility"
    ELSE NoError

\* BaseOption.__post_init__: the field whose check raises ValueError, or "none".
post_init(o) ==
    IF o.spot <= 0 THEN "spot"
    ELSE IF o.strike <= 0 THEN "strike"
    ELSE IF o.maturity <= 0 THEN "maturity"
    ELSE IF o.volatility <= 0 THEN "volatility"
    ELSE NoError

\* The dataclass-generated __init__ of an option class: the fields are stored,
\* then __post_init__ runs; an exception leaves the caller without an instance.
NewOption(a) ==
    IF post_init(a) = NoError THEN [error |-> NoError, field |-> NoError, obj |-> a]
    ELSE [error |-> "ValueError", field |-> post_init(a), obj |-> NoObj]

\* The exception BaseOption._d1_d2 raises on the fields of o, if any.
d1_d2_error(o) ==
    IF o.strike = 0 THEN "ZeroDivisionError"
    ELSE IF Div(o.spot, o.strike) <= 0 THEN "ValueError"
    ELSE IF o.maturity < 0 THEN "ValueError"
    ELSE IF Mul(o.volatility, Sqrt(o.maturity)) = 0 THEN "ZeroDivisionError"
    ELSE NoError

\* BaseOption._d1_d2
d1_d2(o) ==
    LET s == o.spot
        k == o.strike
        t == o.maturity
        sigma == o.volatility
        r == o.rate
        q == o.dividend_yield
        d1 == Div(Ln(Div(s, k)) + Mul(r - q + DivInt(Mul(sigma, sigma), 2), t),
                  Mul(sigma, Sqrt(t)))
        d2 == d1 - Mul(sigma, Sqrt(t))
    IN  <<d1, d2>>

(***************************************************************************)
(* class EuropeanOption                                                    *)
(***************************************************************************)
\* disc_r = math.exp(-r * t)
disc_r_of(o) == Exp(-Mul(o.rate, o.maturity))

\* disc_q = math.exp(-q * t)
disc_q_of(o) == Exp(-Mul(o.dividend_yield, o.maturity))

\* The return statements of EuropeanOption.price, d being (d1, d2).
european_price_of(o, d, disc_r, disc_q) ==
    IF o.option_type = "call"
    THEN Mul(Mul(disc_q, o.spot), NormCdf(d[1])) - Mul(Mul(disc_r, o.strike), NormCdf(d[2]))
    ELSE Mul(Mul(disc_r, o.strike), NormCdf(-d[2])) - Mul(Mul(disc_q, o.spot), NormCdf(-d[1]))

\* EuropeanOption.price
EuropeanOption_price(o) ==
    IF d1_d2_error(o) # NoError THEN Raise(d1_d2_error(o))
    ELSE Ok(european_price_of(o, d1_d2(o), disc_r_of(o), disc_q_of(o)))

\* term1 + term2 + term3 of EuropeanOption.greeks: the derivative of the
\* price with respect to the passing of one year.
european_theta_terms(o, d, disc_r, disc_q, pdf_d1) ==
    LET s == o.spot
        k == o.strike
        r == o.rate
        q == o.dividend_yield
        term1 == -Div(Mul(Mul(Mul(s, disc_q), pdf_d1), o.volatility),
                      2 * Sqrt(o.maturity))
        term2 == IF o.option_type = "call"
                 THEN Mul(Mul(Mul(q, s), disc_q), NormCdf(d[1]))
                 ELSE -Mul(Mul(Mul(q, s), disc_q), NormCdf(-d[1]))
        term3 == IF o.option_type = "call"
                 THEN -Mul(Mul(Mul(r, k), disc_r), NormCdf(d[2]))
                 ELSE Mul(Mul(Mul(r, k), disc_r), NormCdf(-d[2]))
    IN  term1 + term2 + term3

\* theta = (term1 + term2 + term3) / 365
EuropeanOption_theta(terms) == DivInt(terms, 365)

\* The mapping EuropeanOption.greeks returns.
european_greeks_of(o, d, disc_r, disc_q, pdf_d1, cdf_d1, cdf_d2, price) ==
    LET s == o.spot
        k == o.strike
        t == o.maturity
        sigma == o.volatility
        delta == IF o.option_type = "call" THEN Mul(disc_q, cdf_d1)
                 ELSE Mul(disc_q, cdf_d1 - SCALE)
        gamma == Div(Mul(disc_q, pdf_d1), Mul(Mul(s, sigma), Sqrt(t)))
        vega == DivInt(Mul(Mul(Mul(s, disc_q), pdf_d1), Sqrt(t)), 100)
        theta == EuropeanOption_theta(european_theta_terms(o, d, disc_r, disc_q, pdf_d1))
        rho == IF o.option_type = "call"
               THEN DivInt(Mul(Mul(Mul(k, t), disc_r), cdf_d2), 100)
               ELSE -DivInt(Mul(Mul(Mul(k, t), disc_r), NormCdf(-d[2])), 100)
    IN  [price |-> price, delta |-> delta, gamma |-> gamma, vega |-> vega,
         theta |-> theta, rho |-> rho]

\* The Greeks of o from its (d1, d2).
european_greeks_at(o, d) ==
    european_greeks_of(o, d, disc_r_of(o), disc_q_of(o), NormPdf(d[1]), NormCdf(d[1]),
                       NormCdf(d[2]), european_price_of(o, d, disc_r_of(o), disc_q_of(o)))

\* EuropeanOption.greeks
EuropeanOption_greeks(o) ==
    IF d1_d2_error(o) # NoError THEN Raise(d1_d2_error(o))
    ELSE IF Mul(Mul(o.spot, o.volatility), Sqrt(o.maturity)) = 0
         THEN Raise("ZeroDivisionError")
    ELSE Ok(european_greeks_at(o, d1_d2(o)))

(***************************************************************************)
(* class AmericanOption                                                    *)
(***************************************************************************)
\* The exception AmericanOption._tree_params raises, if any: t / steps with
\* steps = 0, math.sqrt of a negative dt, the division by up - down.
tree_params_error(o) ==
    IF o.steps = 0 THEN "ZeroDivisionError"
    ELSE IF FloatOverInt(o.maturity, o.steps) < 0 THEN "ValueError"
    ELSE LET up == Exp(Mul(o.volatility, Sqrt(FloatOverInt(o.maturity, o.steps))))
         IN  IF up = 0 \/ up = Div(SCALE, up) THEN "ZeroDivisionError" ELSE NoError

\* The factor the backward induction multiplies the expected value by.
tree_disc(o, dt) == Exp(Mul(o.rate - o.dividend_yield, dt))

\* AmericanOption._tree_params
tree_params(o) ==
    LET dt == FloatOverInt(o.maturity, o.steps)
        up == Exp(Mul(o.volatility, Sqrt(dt)))
        down == Div(SCALE, up)
        disc == tree_disc(o, dt)
        p == Div(disc - down, up - down)
    IN  [up |-> up, down |-> down, disc |-> disc, p |-> p]

\* Vanilla payoff max(s - K, 0) or max(K - s, 0).
intrinsic(o, s) ==
    IF o.option_type = "call" THEN Max(s - o.strike, 0) ELSE Max(o.strike - s, 0)

\* spots[j] of the lattice at a step: s0 * up ** (step - j) * down ** j.
tree_spot(o, tp, step, j) == Mul(Mul(o.spot, Pow(tp.up, step - j)), Pow(tp.down, j))

RECURSIVE tree_induction(_, _, _, _)
\* The loop "for step in range(n - 1, -1, -1)" of AmericanOption.price:
\* values holds the node values of step + 1, indexed from 1.
tree_induction(o, tp, values, step) ==
    IF step < 0 THEN values
    ELSE LET cont(j) == Mul(tp.disc, Mul(tp.p, values[j + 1])
                                     + Mul(SCALE - tp.p, values[j + 2]))
             new == [j1 \in 1..(step + 1) |->
                        Max(cont(j1 - 1), intrinsic(o, tree_spot(o, tp, step, j1 - 1)))]
         IN  tree_induction(o, tp, new, step - 1)

\* AmericanOption.price
AmericanOption_price(o) ==
    IF tree_params_error(o) # NoError THEN Raise(tree_params_error(o))
    ELSE LET tp == tree_params(o)
             n == o.steps
             terminal == [j1 \in 1..(n + 1) |-> intrinsic(o, tree_spot(o, tp, n, j1 - 1))]
         IN  Ok(tree_induction(o, tp, terminal, n - 1)[1])

\* eps_spot = 1e-2
EpsSpot == 100

\* eps_rate = 1e-4
EpsRate == 1

\* eps_vol = 1e-4
EpsVol == 1

\* 1 / 365, the maturity reduction of the theta bump.
OneDay == 27

\* The theta AmericanOption.greeks reports from the base and reduced prices.
AmericanOption_theta(reduced, base_price) == (reduced - base_price) * 365

\* self.__class__(...).price() of a sibling AmericanOption: the constructor's
\* validation runs first, then the pricing.
american_sibling_price(a) ==
    IF NewOption(a).error # NoError THEN Raise(NewOption(a).error)
    ELSE AmericanOption_price(a)

\* The first exception among the calls of a sequence of outcomes, or "none".
first_error(rs) ==
    IF \A i \in 1..Len(rs) : rs[i].error = NoError THEN NoError
    ELSE rs[CHOOSE i \in 1..Len(rs) :
                /\ rs[i].error # NoError
                /\ \A j \in 1..(i - 1) : rs[j].error = NoError].error

\* The mapping AmericanOption.greeks returns, from the outcomes of its six
\* pricing calls; the first exception among them ends the call.
american_greeks_of(base, up_opt, down_opt, up_vol, up_rate, reduced) ==
    IF first_error(<<base, up_opt, down_opt, up_vol, up_rate, reduced>>) # NoError
    THEN Raise(first_error(<<base, up_opt, down_opt, up_vol, up_rate, reduced>>))
    ELSE Ok([price |-> base.value,
             delta |-> Div(up_opt.value - down_opt.value, 2 * EpsSpot),
             gamma |-> Div(up_opt.value - 2 * base.value + down_opt.value,
                           Mul(EpsSpot, EpsSpot)),
             vega |-> DivInt(Div(up_vol.value - base.value, EpsVol), 100),
             theta |-> AmericanOption_theta(reduced.value, base.value),
             rho |-> DivInt(Div(up_rate.value - base.value, EpsRate), 100)])

\* The arguments of a self.__class__(...) call of AmericanOption.greeks.
american_sibling(o, spot, maturity, volatility, rate) ==
    [cls |-> o.cls, spot |-> spot, strike |-> o.strike, maturity |-> maturity,
     volatility |-> volatility, rate |-> rate, dividend_yield |-> o.dividend_yield,
     option_type |-> o.option_type, steps |-> o.steps]

\* The siblings of AmericanOption.greeks in the order it builds them:
\* up_opt, down_opt, up_vol, up_rate, reduced.
AmericanOption_siblings(o) ==
    <<american_sibling(o, o.spot + EpsSpot, o.maturity, o.volatility, o.rate),
      american_sibling(o, o.spot - EpsSpot, o.maturity, o.volatility, o.rate),
      american_sibling(o, o.spot, o.maturity, o.volatility + EpsVol, o.rate),
      american_sibling(o, o.spot, o.maturity, o.volatility, o.rate + EpsRate),
      american_sibling(o, o.spot, o.maturity - OneDay, o.volatility, o.rate)>>

\* AmericanOption.greeks
AmericanOption_greeks(o) ==
    american_greeks_of(
        AmericanOption_price(o),
        american_sibling_price(AmericanOption_siblings(o)[1]),
        american_sibling_price(AmericanOption_siblings(o)[2]),
        american_sibling_price(AmericanOption_siblings(o)[3]),
        american_sibling_price(AmericanOption_siblings(o)[4]),
        american_sibling_price(AmericanOption_siblings(o)[5]))

(***************************************************************************)
(* class BarrierOption                                                     *)
(***************************************************************************)
\* t_step = maturity / n_steps
t_step(o) == FloatOverInt(o.maturity, o.n_steps)

\* n = math.log(barrier / spot) / (volatility * math.sqrt(t_step))
branch_n(o) == Div(Ln(Div(o.barrier, o.spot)), Mul(o.volatility, Sqrt(t_step(o))))

\* nn = n / int(n) if n > 2 else n
branch_nn(n) == IF n > 2 * SCALE THEN DivInt(n, Trunc(n)) ELSE n

\* Whether nn ** 2 or 2 * nn * volatility, the divisors of pu, pd, pm, is 0.
zero_divisor(o, nn) == Mul(nn, nn) = 0 \/ Mul(2 * nn, o.volatility) = 0

\* The exception the parameter lines of BarrierOption.price raise, if any.
barrier_params_error(o) ==
    IF o.n_steps = 0 THEN "ZeroDivisionError"
    ELSE IF o.spot = 0 THEN "ZeroDivisionError"
    ELSE IF Div(o.barrier, o.spot) <= 0 THEN "ValueError"
    ELSE IF t_step(o) < 0 THEN "ValueError"
    ELSE IF Mul(o.volatility, Sqrt(t_step(o))) = 0 THEN "ZeroDivisionError"
    ELSE IF zero_divisor(o, branch_nn(branch_n(o))) THEN "ZeroDivisionError"
    ELSE NoError

\* dx, the discounted branch probabilities and exp(dx) of BarrierOption.price,
\* from t_step and nn.
barrier_params_of(o, dt, nn) ==
    LET dx == Mul(Mul(nn, o.volatility), Sqrt(dt))
        disc == Exp(-Mul(o.rate, dt))
        u == o.rate - o.dividend_yield - DivInt(Mul(o.volatility, o.volatility), 2)
        drift == Div(Mul(u, Sqrt(dt)), Mul(2 * nn, o.volatility))
        pu == Div(SCALE \div 2, Mul(nn, nn)) + drift
        pd == Div(SCALE \div 2, Mul(nn, nn)) - drift
        pm == SCALE - Div(SCALE, Mul(nn, nn))
    IN  [dx |-> dx, pu_ |-> Mul(disc, pu), pd_ |-> Mul(disc, pd), pm_ |-> Mul(disc, pm),
         exp_dx |-> Exp(dx)]

barrier_params(o) == barrier_params_of(o, t_step(o), branch_nn(branch_n(o)))

\* spots[0] = spot * exp(-n_steps * dx)
barrier_spot0(o, bp) == Mul(o.spot, Exp(-(o.n_steps * bp.dx)))

\* spots[i] = spots[i - 1] * exp_dx appended to spots[0..i-1].
barrier_spots_next(prev, bp, i) == Append(prev, Mul(prev[i], bp.exp_dx))

RECURSIVE barrier_spots(_, _, _)
\* The list spots, indexed from 0: spots[0] = spot * exp(-n_steps * dx) and
\* spots[i] = spots[i - 1] * exp_dx, built up to index i.
barrier_spots(o, bp, i) ==
    IF i = 0 THEN <<barrier_spot0(o, bp)>>
    ELSE barrier_spots_next(barrier_spots(o, bp, i - 1), bp, i)

\* The knock-out test of a node.
knocked_out(o, s_t) == s_t >= o.barrier

\* T = n_steps % 2, the column the maturity loop writes.
maturity_column(o) == o.n_steps % 2

\* current = t % 2, the column step t writes.
current_column(t) == t % 2

\* next_ computed as the column step t itself writes.
next_column_same(t) == t % 2

\* next_ = (t + 1) % 2, the column step t reads.
next_column(t) == (t + 1) % 2

\* range(n_steps - t, n_steps + t + 1), the nodes step t writes.
step_nodes(o, t) == (o.n_steps - t)..(o.n_steps + t)

\* The maturity loop: column T = n_steps % 2 of every node is written.
barrier_maturity(o, spots) ==
    [i \in 0..(2 * o.n_steps) |->
        LET v == IF knocked_out(o, spots[i + 1]) THEN 0 ELSE intrinsic(o, spots[i + 1])
        IN  IF maturity_column(o) = 0 THEN <<v, 0>> ELSE <<0, v>>]

\* The induction pass of step t with the knock-out test left out.
barrier_step_without_test(o, bp, spots, option, t) ==
    [i \in 0..(2 * o.n_steps) |->
        IF i \in step_nodes(o, t)
        THEN [option[i] EXCEPT ![current_column(t) + 1] =
                  Mul(bp.pd_, option[i - 1][next_column(t) + 1])
                  + Mul(bp.pm_, option[i][next_column(t) + 1])
                  + Mul(bp.pu_, option[i + 1][next_column(t) + 1])]
        ELSE option[i]]

\* One pass of the loop over i for step t: column t % 2 of nodes
\* n_steps - t .. n_steps + t is written from column (t + 1) % 2.
barrier_step(o, bp, spots, option, t) ==
    LET node(i) == IF knocked_out(o, spots[i + 1]) THEN 0
                   ELSE Mul(bp.pd_, option[i - 1][next_column(t) + 1])
                        + Mul(bp.pm_, option[i][next_column(t) + 1])
                        + Mul(bp.pu_, option[i + 1][next_column(t) + 1])
    IN  [i \in 0..(2 * o.n_steps) |->
            IF i \in step_nodes(o, t)
            THEN [option[i] EXCEPT ![current_column(t) + 1] = node(i)]
            ELSE option[i]]

\* The step that last wrote each cell of the buffer after the maturity loop
\* (-1: the cell still holds the 0.0 it was created with).
maturity_writes(o) ==
    [i \in 0..(2 * o.n_steps) |->
        IF maturity_column(o) = 0 THEN <<o.n_steps, -1>> ELSE <<-1, o.n_steps>>]

\* The step that last wrote each cell after the pass of step t.
step_writes(o, written, t) ==
    [i \in 0..(2 * o.n_steps) |->
        IF i \in step_nodes(o, t) THEN [written[i] EXCEPT ![current_column(t) + 1] = t]
        ELSE written[i]]

\* The cells the pass of step t reads (a knocked-out node reads none): the
\* index, the column and the step that wrote the cell, -2 for an index
\* outside the buffer.
step_reads(o, spots, written, t) ==
    {[i |-> j, column |-> next_column(t),
      written |-> IF j \in DOMAIN written THEN written[j][next_column(t) + 1] ELSE -2] :
        j \in UNION {{i - 1, i, i + 1} :
                        i \in {k \in step_nodes(o, t) : ~knocked_out(o, spots[k + 1])}}}

RECURSIVE barrier_induction(_, _, _, _, _)
\* The loop "for t in range(n_steps - 1, -1, -1)" of BarrierOption.price.
barrier_induction(o, bp, spots, option, t) ==
    IF t < 0 THEN option
    ELSE barrier_induction(o, bp, spots, barrier_step(o, bp, spots, option, t), t - 1)

\* The maturity loop and the backward induction on the list spots; the
\* result is option[n_steps][0].
barrier_value(o, bp, spots) ==
    barrier_induction(o, bp, spots, barrier_maturity(o, spots), o.n_steps - 1)[o.n_steps][1]

\* The lattice of o under the parameters bp.
barrier_value_of(o, bp) == barrier_value(o, bp, barrier_spots(o, bp, 2 * o.n_steps))

\* BarrierOption.price
BarrierOption_price(o) ==
    IF barrier_params_error(o) # NoError THEN Raise(barrier_params_error(o))
    ELSE Ok(barrier_value_of(o, barrier_params(o)))

\* self.__class__(...).price() of a sibling BarrierOption.
barrier_sibling_price(a) ==
    IF NewOption(a).error # NoError THEN Raise(NewOption(a).error)
    ELSE BarrierOption_price(a)

\* BarrierOption.greeks with the base price left out of the mapping.
barrier_greeks_without_price(base, up, down) ==
    IF first_error(<<base, up, down>>) # NoError
    THEN Raise(first_error(<<base, up, down>>))
    ELSE Ok([delta |-> Div(up.value - down.value, 2 * EpsSpot),
             gamma |-> Div(up.value - 2 * base.value + down.value, Mul(EpsSpot, EpsSpot))])

\* The mapping BarrierOption.greeks returns, from the outcomes of its three
\* pricing calls; the first exception among them ends the call.
barrier_greeks_of(base, up, down) ==
    IF first_error(<<base, up, down>>) # NoError
    THEN Raise(first_error(<<base, up, down>>))
    ELSE Ok([price |-> base.value,
             delta |-> Div(up.value - down.value, 2 * EpsSpot),
             gamma |-> Div(up.value - 2 * base.value + down.value, Mul(EpsSpot, EpsSpot))])

\* The arguments of a self.__class__(...) call of BarrierOption.greeks.
barrier_sibling(o, spot) ==
    [cls |-> o.cls, spot |-> spot, strike |-> o.strike, maturity |-> o.maturity,
     volatility |-> o.volatility, rate |-> o.rate, dividend_yield |-> o.dividend_yield,
     option_type |-> o.option_type, barrier |-> o.barrier, n_steps |-> o.n_steps]

\* The siblings of BarrierOption.greeks: up, down.
BarrierOption_siblings(o) ==
    <<barrier_sibling(o, o.spot + EpsSpot), barrier_sibling(o, o.spot - EpsSpot)>>

\* BarrierOption.greeks
BarrierOption_greeks(o) ==
    barrier_greeks_of(
        BarrierOption_price(o),
        barrier_sibling_price(BarrierOption_siblings(o)[1]),
        barrier_sibling_price(BarrierOption_siblings(o)[2]))

(***************************************************************************)
(* numpy.random.Generator: a deterministic stream per seed, and a stream   *)
(* started from operating-system entropy when the seed is None.            *)
(***************************************************************************)
\* The value None of "seed: Optional[int]".
NoSeed == -1

\* Number of states of the generator.
RngModulus == 16

\* np.random.default_rng(seed): the initial state of a fresh generator;
\* entropy is what the operating system supplies when seed is None.
default_rng_unseeded(seed, entropy) == entropy % RngModulus

\* np.random.default_rng(seed): the initial state of a fresh generator, taken
\* from the operating system's entropy when seed is None.
default_rng(seed, entropy) ==
    IF seed = NoSeed THEN entropy % RngModulus ELSE (seed * 7 + 1) % RngModulus

\* The state after one draw.
rng_next(st) == (st * 5 + 3) % RngModulus

\* rng.normal(): the standard normal variate drawn in state st.
rng_normal(st) == <<-15000, -5000, 5000, 15000>>[(st \div 4) + 1]

\* rng.poisson(lam): the count drawn in state st, by inversion of the
\* distribution function on the uniform variate st / RngModulus.
rng_poisson(lam, st) ==
    LET u == (st * SCALE) \div RngModulus
        p0 == Exp(-lam)
    IN  IF u < p0 THEN 0 ELSE IF u < p0 + Mul(p0, lam) THEN 1 ELSE 2

\* sum of a sequence of numbers.
RECURSIVE SeqSum(_)
SeqSum(xs) == IF xs = <<>> THEN 0 ELSE Head(xs) + SeqSum(Tail(xs))

\* numpy mean of a non-empty array.
Mean(xs) == DivInt(SeqSum(xs), Len(xs))

\* (x - m) ** 2 of every element of an array.
SquaredDeviations(xs, m) == [i \in 1..Len(xs) |-> Mul(xs[i] - m, xs[i] - m)]

\* numpy std() of a non-empty array: sqrt(mean((x - mean) ** 2)), ddof = 0.
Std(xs) == Sqrt(Mean(SquaredDeviations(xs, Mean(xs))))

(***************************************************************************)
(* class AsianOption                                                       *)
(***************************************************************************)
\* The exception AsianOption.price raises before its loops, if any.
asian_error(o) ==
    IF o.n_steps = 0 THEN "ZeroDivisionError"
    ELSE IF FloatOverInt(o.maturity, o.n_steps) < 0 THEN "ValueError"
    ELSE IF o.n_simulations < 0 THEN "ValueError"
    ELSE NoError

\* drift = (rate - dividend_yield - 0.5 * volatility ** 2) * dt
sim_drift(o, dt) ==
    Mul(o.rate - o.dividend_yield - DivInt(Mul(o.volatility, o.volatility), 2), dt)

\* diffusion = volatility * math.sqrt(dt)
sim_diffusion(o, dt) == Mul(o.volatility, Sqrt(dt))

RECURSIVE asian_path(_, _, _, _, _, _, _, _)
\* The loop over t of one path: last is path[t - 1], total the sum of
\* path[0..t-1]; the result is the path's sum, the draws and the state.
asian_path(o, drift, diffusion, st, t, last, total, draws) ==
    IF t > o.n_steps THEN [total |-> total, st |-> st, draws |-> draws]
    ELSE asian_path(o, drift, diffusion, rng_next(st), t + 1,
                    Mul(last, Exp(drift + Mul(diffusion, rng_normal(st)))),
                    total + Mul(last, Exp(drift + Mul(diffusion, rng_normal(st)))),
                    Append(draws, rng_normal(st)))

\* payoffs[i] of a finished path appended to payoffs[0..i-1].
asian_payoffs(o, payoffs, path) ==
    Append(payoffs, intrinsic(o, DivInt(path.total, o.n_steps + 1)))

RECURSIVE asian_paths(_, _, _, _, _, _, _)
RECURSIVE asian_paths_next(_, _, _, _, _, _)
\* The loop over i: payoffs[0..i-1] are filled.
asian_paths(o, drift, diffusion, st, i, payoffs, draws) ==
    IF i >= o.n_simulations THEN [payoffs |-> payoffs, draws |-> draws]
    ELSE asian_paths_next(o, drift, diffusion, i, payoffs,
                          asian_path(o, drift, diffusion, st, 1, o.spot, o.spot, draws))

asian_paths_next(o, drift, diffusion, i, payoffs, path) ==
    asian_paths(o, drift, diffusion, path.st, i + 1, asian_payoffs(o, payoffs, path),
                path.draws)

\* The return statement of AsianOption.price on the simulated payoffs.
asian_result(o, sim) ==
    [result |-> IF o.n_simulations = 0 THEN NaN
                ELSE Ok(Mul(Exp(-Mul(o.rate, o.maturity)), Mean(sim.payoffs))),
     draws |-> sim.draws]

\* AsianOption.price, with the draws it consumed; entropy is unused unless
\* random_seed is None.
AsianOption_run(o, entropy) ==
    IF asian_error(o) # NoError
    THEN [result |-> Raise(asian_error(o)), draws |-> <<>>]
    ELSE asian_result(o, asian_paths(o, sim_drift(o, FloatOverInt(o.maturity, o.n_steps)),
                                     sim_diffusion(o, FloatOverInt(o.maturity, o.n_steps)),
                                     default_rng(o.random_seed, entropy), 0, <<>>, <<>>))

\* AsianOption.price
AsianOption_price(o) == AsianOption_run(o, 0).result

\* self.__class__(...).price() of a sibling AsianOption.
asian_sibling_price(a) ==
    IF NewOption(a).error # NoError THEN Raise(NewOption(a).error)
    ELSE AsianOption_price(a)

\* The mapping AsianOption.greeks returns, from the outcomes of its three
\* pricing calls; the first exception among them ends the call.
asian_greeks_of(base, up_price, up_vol_price) ==
    IF first_error(<<base, up_price, up_vol_price>>) # NoError
    THEN Raise(first_error(<<base, up_price, up_vol_price>>))
    ELSE [error |-> NoError,
          value |-> [price |-> base.value,
                     delta |-> Div(up_price.value - base.value, EpsSpot),
                     vega |-> DivInt(Div(up_vol_price.value - base.value, EpsVol), 100)],
          nan |-> base.nan]

\* A sibling built without random_seed, which then takes the default of the
\* field, 42.
asian_sibling_default_seed(o, spot, volatility) ==
    [cls |-> o.cls, spot |-> spot, strike |-> o.strike, maturity |-> o.maturity,
     volatility |-> volatility, rate |-> o.rate, dividend_yield |-> o.dividend_yield,
     option_type |-> o.option_type, n_steps |-> o.n_steps,
     n_simulations |-> o.n_simulations, random_seed |-> 42]

\* The arguments of a self.__class__(...) call of AsianOption.greeks.
asian_sibling(o, spot, volatility) ==
    [cls |-> o.cls, spot |-> spot, strike |-> o.strike, maturity |-> o.maturity,
     volatility |-> volatility, rate |-> o.rate, dividend_yield |-> o.dividend_yield,
     option_type |-> o.option_type, n_steps |-> o.n_steps,
     n_simulations |-> o.n_simulations, random_seed |-> o.random_seed]

\* The siblings of AsianOption.greeks: up_price, up_vol_price.
AsianOption_siblings(o) ==
    <<asian_sibling(o, o.spot + EpsSpot, o.volatility),
      asian_sibling(o, o.spot, o.volatility + EpsVol)>>

\* AsianOption.greeks
AsianOption_greeks(o) ==
    asian_greeks_of(
        AsianOption_price(o),
        asian_sibling_price(AsianOption_siblings(o)[1]),
        asian_sibling_price(AsianOption_siblings(o)[2]))

(***************************************************************************)
(* class MonteCarloEngine                                                  *)
(***************************************************************************)
\* The dataclass-generated __init__ of MonteCarloEngine: the class defines no
\* __post_init__, every argument is stored as given.
NewEngine(a) == [error |-> NoError, field |-> NoError, obj |-> a]

\* The exception _generate_paths raises before its loops, if any.
engine_error(o) ==
    IF o.n_steps = 0 THEN "ZeroDivisionError"
    ELSE IF FloatOverInt(o.maturity, o.n_steps) < 0 THEN "ValueError"
    ELSE IF o.n_paths < 0 \/ o.n_steps + 1 < 0 THEN "ValueError"
    ELSE NoError

\* The end of step j: the diffusion draw z in state st2 and the new paths[i, j].
engine_diffuse(o, drift, sigma_dt, last, jump, st2, failed, draws) ==
    [failed |-> failed,
     value |-> Mul(last, Exp(drift + Mul(sigma_dt, rng_normal(st2)) + jump)),
     st |-> rng_next(st2),
     draws |-> Append(draws, rng_normal(st2))]

\* The jump of step j for a Poisson count n_jumps drawn in the state before st1:
\* rng.normal(loc, scale) is drawn when n_jumps > 0 and raises on scale < 0.
engine_jump(o, drift, sigma_dt, last, n_jumps, st1) ==
    IF n_jumps > 0
    THEN engine_diffuse(o, drift, sigma_dt, last,
                        o.jump_mean * n_jumps
                        + Mul(Mul(o.jump_vol, Sqrt(n_jumps * SCALE)), rng_normal(st1)),
                        rng_next(st1),
                        Mul(o.jump_vol, Sqrt(n_jumps * SCALE)) < 0,
                        <<n_jumps, rng_normal(st1)>>)
    ELSE engine_diffuse(o, drift, sigma_dt, last, 0, st1, FALSE, <<n_jumps>>)

\* One step j of one path: the Poisson count and the jump when
\* jump_intensity > 0, then the diffusion.
engine_step(o, dt, drift, sigma_dt, st, last) ==
    IF o.jump_intensity > 0
    THEN engine_jump(o, drift, sigma_dt, last,
                     rng_poisson(Mul(o.jump_intensity, dt), st), rng_next(st))
    ELSE engine_diffuse(o, drift, sigma_dt, last, 0, st, FALSE, <<>>)

RECURSIVE engine_paths(_, _, _, _, _, _, _, _, _, _)
RECURSIVE engine_paths_next(_, _, _, _, _, _, _, _, _)
\* The loops over i and j of _generate_paths: finals holds paths[0..i-1, -1],
\* last is paths[i, j - 1].
engine_paths(o, dt, drift, sigma_dt, st, i, j, last, finals, draws) ==
    IF i >= o.n_paths THEN [failed |-> FALSE, finals |-> finals, draws |-> draws]
    ELSE IF j > o.n_steps
         THEN engine_paths(o, dt, drift, sigma_dt, st, i + 1, 1, o.spot,
                           Append(finals, last), draws)
    ELSE engine_paths_next(o, dt, drift, sigma_dt, i, j, finals, draws,
                           engine_step(o, dt, drift, sigma_dt, st, last))

engine_paths_next(o, dt, drift, sigma_dt, i, j, finals, draws, step) ==
    IF step.failed THEN [failed |-> TRUE, finals |-> finals, draws |-> draws \o step.draws]
    ELSE engine_paths(o, dt, drift, sigma_dt, step.st, i, j + 1, step.value, finals,
                      draws \o step.draws)

\* MonteCarloEngine._generate_paths, given dt.
generate_paths(o, dt, entropy) ==
    engine_paths(o, dt, sim_drift(o, dt), sim_diffusion(o, dt),
                 default_rng(o.seed, entropy), 0, 1, o.spot, <<>>, <<>>)

\* The payoffs of price_european on the final values of the paths.
engine_payoffs(o, option_type, finals) ==
    [i \in 1..Len(finals) |->
        IF option_type = "call" THEN Max(finals[i] - o.strike, 0)
        ELSE Max(o.strike - finals[i], 0)]

\* The standard error price_european reports for the payoffs.
std_error(o, payoffs) == Div(Std(payoffs), Sqrt(o.n_paths * SCALE))

\* The return statement of price_european: (price, std_error).
engine_result(o, payoffs) ==
    Ok(<<Mul(Exp(-Mul(o.rate, o.maturity)), Mean(payoffs)), std_error(o, payoffs)>>)

\* price_european on the simulated paths.
engine_price_of(o, option_type, sim) ==
    [result |-> IF sim.failed THEN Raise("ValueError")
                ELSE IF o.n_paths = 0 THEN NaN
                ELSE engine_result(o, engine_payoffs(o, option_type, sim.finals)),
     draws |-> sim.draws]

\* MonteCarloEngine.price_european, with the draws it consumed.
price_european(o, option_type, entropy) ==
    IF engine_error(o) # NoError
    THEN [result |-> Raise(engine_error(o)), draws |-> <<>>]
    ELSE engine_price_of(o, option_type,
                         generate_paths(o, FloatOverInt(o.maturity, o.n_steps), entropy))

(***************************************************************************)
(* The inputs a caller constructs models from.                             *)
(***************************************************************************)
\* Largest step count (steps, n_steps) a caller passes.
MaxSteps == 2

\* Largest path count (n_simulations, n_paths) a caller passes.
MaxPaths == 2

\* <<spot, strike, maturity, volatility>>: a reference contract and the
\* contracts that differ from it in one field.
Cores ==
    {<<SCALE, SCALE, SCALE, 2000>>}
    \cup {<<s, SCALE, SCALE, 2000>> : s \in {-SCALE, 0, 100, 12000}}
    \cup {<<SCALE, k, SCALE, 2000>> : k \in {-SCALE, 0}}
    \cup {<<SCALE, SCALE, t, 2000>> : t \in {-SCALE, 0, 20}}
    \cup {<<SCALE, SCALE, SCALE, v>> : v \in {-2000, 0}}

\* <<rate, dividend_yield>>
Markets == {<<500, 0>>, <<0, 5000>>, <<-500, -200>>}

Contract(core, market, option_type) ==
    [spot |-> core[1], strike |-> core[2], maturity |-> core[3], volatility |-> core[4],
     rate |-> market[1], dividend_yield |-> market[2], option_type |-> option_type]

\* Every core on the reference market, and the reference core on every market
\* and side.
Contracts ==
    {Contract(c, <<500, 0>>, "call") : c \in Cores}
    \cup {Contract(<<SCALE, SCALE, SCALE, 2000>>, m, ot) : m \in Markets, ot \in OptionType}

\* r extended with the fields of a class.
With(r, extra) ==
    [f \in (DOMAIN r) \cup (DOMAIN extra) |-> IF f \in DOMAIN extra THEN extra[f] ELSE r[f]]

EuropeanArgs == {With(c, [cls |-> "EuropeanOption"]) : c \in Contracts}

AmericanArgs ==
    {With(c, [cls |-> "AmericanOption", steps |-> n]) : c \in Contracts, n \in -1..MaxSteps}

Barriers == {5000, 8000, SCALE, 12000, 15000}

\* The two-day maturity is left out: its branch width n squared is beyond
\* the range of the fixed-point numbers.
BarrierArgs ==
    {With(c, [cls |-> "BarrierOption", barrier |-> b, n_steps |-> n]) :
        c \in {k \in Contracts : k.maturity # 20}, b \in Barriers, n \in 1..MaxSteps}

\* <<n_steps, n_simulations, random_seed>>
AsianParams ==
    {<<n, MaxPaths, 1>> : n \in -1..MaxSteps}
    \cup {<<MaxSteps, m, 1>> : m \in -1..MaxPaths}
    \cup {<<MaxSteps, MaxPaths, 2>>}

AsianArgs ==
    {With(c, [cls |-> "AsianOption", n_steps |-> p[1], n_simulations |-> p[2],
              random_seed |-> p[3]]) : c \in Contracts, p \in AsianParams}

Engine(n_steps, n_paths, seed, jump_intensity, jump_vol) ==
    [cls |-> "MonteCarloEngine", spot |-> SCALE, volatility |-> 2000, rate |-> 500,
     maturity |-> SCALE, strike |-> SCALE, dividend_yield |-> 0, n_steps |-> n_steps,
     n_paths |-> n_paths, seed |-> seed, jump_intensity |-> jump_intensity,
     jump_mean |-> 0, jump_vol |-> jump_vol]

EngineArgs ==
    {Engine(n, MaxPaths, 1, 0, 0) : n \in -1..MaxSteps}
    \cup {Engine(MaxSteps, m, 1, 0, 0) : m \in -1..MaxPaths}
    \cup {Engine(MaxSteps, MaxPaths, sd, 0, 0) : sd \in {NoSeed, 2}}
    \cup {Engine(MaxSteps, MaxPaths, 1, l, v) : l \in {-SCALE, SCALE}, v \in {-1000, 1000}}

AllArgs == EuropeanArgs \cup AmericanArgs \cup BarrierArgs \cup AsianArgs \cup EngineArgs

\* The simulation configurations of the reproducibility runs.
SimArgs ==
    {Engine(n, m, sd, j[1], j[2]) :
        n \in 1..MaxSteps, m \in 1..MaxPaths, sd \in {NoSeed, 1, 2},
        j \in {<<0, 0>>, <<SCALE, 1000>>}}
    \cup {With(Contract(<<SCALE, SCALE, SCALE, 2000>>, <<500, 0>>, ot),
               [cls |-> "AsianOption", n_steps |-> MaxSteps, n_simulations |-> MaxPaths,
                random_seed |-> sd]) : ot \in OptionType, sd \in {1, 2}}

\* What the operating system's entropy source may return.
Entropy == {0, 5, 11}

\* <<field, value>> of the assignments a caller attempts.
Assignments == {<<"spot", -SCALE>>, <<"volatility", 4000>>}

(***************************************************************************)
(* The state: the instance a caller holds and the outcome of its last call *)
(***************************************************************************)
VARIABLES
    obj,        \* the instance the caller holds, or NoObj
    args,       \* the arguments the last constructor call was given, or NoObj
    outcome,    \* the last call: what it was and how it ended
    ref,        \* a seeded simulation run to compare later runs with, or NoRun
    lattice     \* the BarrierOption.price call in progress, or NoLattice

vars == <<obj, args, outcome, ref, lattice>>

NoLattice == [pc |-> "none"]

NoRun == [cfg |-> NoObj]

Outcome(op, res, field, option_type, draws) ==
    [op |-> op, res |-> res, field |-> field, option_type |-> option_type, draws |-> draws]

Init ==
    /\ obj = NoObj
    /\ args = NoObj
    /\ outcome = Outcome("none", Ok(0), NoError, "call", <<>>)
    /\ ref = NoRun
    /\ lattice = NoLattice

\* The constructor of the class a names.
New(a) == IF a.cls = "MonteCarloEngine" THEN NewEngine(a) ELSE NewOption(a)

\* price() of an option, price_european(option_type) of an engine.
PriceOf(o, option_type, entropy) ==
    CASE o.cls = "EuropeanOption" -> [result |-> EuropeanOption_price(o), draws |-> <<>>]
      [] o.cls = "AmericanOption" -> [result |-> AmericanOption_price(o), draws |-> <<>>]
      [] o.cls = "BarrierOption" -> [result |-> BarrierOption_price(o), draws |-> <<>>]
      [] o.cls = "AsianOption" -> AsianOption_run(o, entropy)
      [] o.cls = "MonteCarloEngine" -> price_european(o, option_type, entropy)

\* greeks() of an option.
GreeksOf(o) ==
    CASE o.cls = "EuropeanOption" -> EuropeanOption_greeks(o)
      [] o.cls = "AmericanOption" -> AmericanOption_greeks(o)
      [] o.cls = "BarrierOption" -> BarrierOption_greeks(o)
      [] o.cls = "AsianOption" -> AsianOption_greeks(o)

\* The caller constructs a model from the arguments a; a failed construction
\* leaves it without an instance.
Construct(A) ==
    \E a \in A :
        /\ obj' = New(a).obj
        /\ args' = a
        /\ outcome' = Outcome("construct", Raise(New(a).error), New(a).field,
                              "call", <<>>)

\* The caller calls price() (price_european(option_type) on an engine).
Price ==
    /\ obj # NoObj
    /\ \E option_type \in OptionType, entropy \in Entropy :
          LET ot == IF obj.cls = "MonteCarloEngine" THEN option_type ELSE obj.option_type
              run == PriceOf(obj, ot, entropy)
          IN  outcome' = Outcome("price", run.result, NoError, ot, run.draws)
    /\ UNCHANGED <<obj, args>>

\* The caller calls greeks().
Greeks ==
    /\ obj # NoObj
    /\ obj.cls \in OptionClasses
    /\ outcome' = Outcome("greeks", GreeksOf(obj), NoError, obj.option_type, <<>>)
    /\ UNCHANGED <<obj, args>>

\* The caller assigns a field of the instance (the dataclasses are not frozen).
Assign ==
    /\ obj # NoObj
    /\ \E fv \in Assignments :
          /\ obj' = [obj EXCEPT ![fv[1]] = fv[2]]
          /\ outcome' = Outcome("assign", Ok(0), fv[1], "call", <<>>)
    /\ UNCHANGED args

Next ==
    \/ Construct(AllArgs) /\ UNCHANGED <<ref, lattice>>
    \/ Price /\ UNCHANGED <<ref, lattice>>
    \/ Greeks /\ UNCHANGED <<ref, lattice>>
    \/ Assign /\ UNCHANGED <<ref, lattice>>

Spec == Init /\ [][Next]_vars

(***************************************************************************)
(* Reproducibility runs: callers construct simulation models, price them   *)
(* repeatedly and make other calls in between; ref keeps one seeded run to *)
(* compare the later runs of the same configuration with.                  *)
(***************************************************************************)
\* The seed field of a simulation model.
SeedOf(o) == IF o.cls = "MonteCarloEngine" THEN o.seed ELSE o.random_seed

\* The record of a seeded run.
Run(o, option_type, run) ==
    [cfg |-> o, option_type |-> option_type, res |-> run.result, draws |-> run.draws,
     between |-> FALSE]

\* ref after a call that is not the kind of run ref records.
Between == IF ref = NoRun THEN ref ELSE [ref EXCEPT !.between = TRUE]

SimConstruct == Construct(SimArgs) /\ ref' = Between

SimRecord(o, option_type, run) ==
    /\ outcome' = Outcome("price", run.result, NoError, option_type, run.draws)
    /\ \/ ref' = ref
       \/ SeedOf(o) # NoSeed /\ ref' = Run(o, option_type, run)

SimPrice ==
    /\ obj # NoObj
    /\ \E option_type \in OptionType, entropy \in Entropy :
          SimRecord(obj,
                    IF obj.cls = "MonteCarloEngine" THEN option_type ELSE obj.option_type,
                    PriceOf(obj,
                            IF obj.cls = "MonteCarloEngine" THEN option_type
                            ELSE obj.option_type, entropy))
    /\ UNCHANGED <<obj, args>>

SimGreeks == Greeks /\ ref' = Between

SimNext ==
    \/ SimConstruct /\ UNCHANGED lattice
    \/ SimPrice /\ UNCHANGED lattice
    \/ SimGreeks /\ UNCHANGED lattice

SimSpec == Init /\ [][SimNext]_vars

(***************************************************************************)
(* BarrierOption.price step by step: the parameter lines, the list spots   *)
(* and the maturity loop, then one pass of the backward induction at a     *)
(* time, then the return.  lattice.written and lattice.reads keep, for     *)
(* each cell of the two-column buffer, the step that last wrote it and the *)
(* cells the last pass read.                                               *)
(***************************************************************************)
\* No price() call is in progress.
Idle == lattice.pc \in {"none", "done"}

LatticeConstruct ==
    /\ Idle
    /\ Construct(BarrierArgs)
    /\ lattice' = NoLattice
    /\ UNCHANGED ref

\* The state of the call after the maturity loop on the list spots.
AfterMaturity(o, bp, spots) ==
    [pc |-> "loop", t |-> o.n_steps, bp |-> bp, spots |-> spots,
     option |-> barrier_maturity(o, spots), written |-> maturity_writes(o), reads |-> {}]

\* price() is called: an exception of the parameter lines ends the call;
\* otherwise spots is built and the maturity loop runs.
LatticeBegin ==
    /\ Idle
    /\ obj # NoObj
    /\ IF barrier_params_error(obj) # NoError
       THEN /\ outcome' = Outcome("price", Raise(barrier_params_error(obj)), NoError,
                                  obj.option_type, <<>>)
            /\ lattice' = NoLattice
       ELSE /\ outcome' = Outcome("call", Ok(0), NoError, obj.option_type, <<>>)
            /\ lattice' = AfterMaturity(obj, barrier_params(obj),
                                        barrier_spots(obj, barrier_params(obj),
                                                      2 * obj.n_steps))
    /\ UNCHANGED <<obj, args, ref>>

\* One pass of "for t in range(n_steps - 1, -1, -1)".
LatticeStep ==
    /\ lattice.pc = "loop"
    /\ lattice.t > 0
    /\ lattice' = [lattice EXCEPT
          !.t = lattice.t - 1,
          !.option = barrier_step(obj, lattice.bp, lattice.spots, lattice.option,
                                  lattice.t - 1),
          !.written = step_writes(obj, lattice.written, lattice.t - 1),
          !.reads = step_reads(obj, lattice.spots, lattice.written, lattice.t - 1)]
    /\ UNCHANGED <<obj, args, outcome, ref>>

\* return option[self.n_steps][0]
LatticeReturn ==
    /\ lattice.pc = "loop"
    /\ lattice.t = 0
    /\ outcome' = Outcome("price", Ok(lattice.option[obj.n_steps][1]), NoError,
                          obj.option_type, <<>>)
    /\ lattice' = [lattice EXCEPT !.pc = "done"]
    /\ UNCHANGED <<obj, args, ref>>

LatticeNext ==
    \/ LatticeConstruct
    \/ LatticeBegin
    \/ LatticeStep
    \/ LatticeReturn

LatticeSpec == Init /\ [][LatticeNext]_vars

(***************************************************************************)
(* Properties                                                              *)
(***************************************************************************)
\* One of the four validated fields of the arguments a is not strictly positive.
NonPositive(a) == a.spot <= 0 \/ a.strike <= 0 \/ a.maturity <= 0 \/ a.volatility <= 0

\* C1: constructing an option model of any of the four classes fails with a
\* validation failure, leaving no object, exactly when spot, strike, maturity
\* or volatility is not strictly positive; whatever the rate and the dividend
\* yield, it succeeds when all four are strictly positive, and the object
\* holds the arguments.
C1_ConstructionValidates ==
    (outcome.op = "construct" /\ args.cls \in OptionClasses) =>
        /\ NonPositive(args) => (outcome.res.error = "ValueError" /\ obj = NoObj)
        /\ ~NonPositive(args) => (outcome.res.error = NoError /\ obj = args)

\* A construction with volatility 0 has been rejected, naming the field.
C1_Rejected ==
    /\ outcome.op = "construct"
    /\ args.cls \in OptionClasses
    /\ args.volatility = 0
    /\ outcome.res.error = "ValueError"
    /\ outcome.field = "volatility"
    /\ obj = NoObj

\* C2: constructing the Binomial model with a step count below 1 is rejected
\* with a validation failure at construction time.
C2_StepsValidated ==
    (outcome.op = "construct" /\ args.cls = "AmericanOption" /\ args.steps < 1) =>
        (outcome.res.error # NoError /\ obj = NoObj)

\* C3: the simulation engine rejects n_paths < 1, n_steps < 1, a negative
\* jump intensity and a negative jump volatility at construction.
C3_EngineValidated ==
    (/\ outcome.op = "construct"
     /\ args.cls = "MonteCarloEngine"
     /\ \/ args.n_paths < 1
        \/ args.n_steps < 1
        \/ args.jump_intensity < 0
        \/ args.jump_vol < 0) =>
        (outcome.res.error # NoError /\ obj = NoObj)

\* The method parameters of the model o are the ones the specification allows.
ValidParameters(o) ==
    CASE o.cls = "AmericanOption" -> o.steps >= 1
      [] o.cls = "BarrierOption" -> o.n_steps >= 1 /\ o.barrier > 0
      [] o.cls = "AsianOption" -> o.n_steps >= 1 /\ o.n_simulations >= 1
      [] o.cls = "MonteCarloEngine" ->
            /\ o.n_steps >= 1 /\ o.n_paths >= 1
            /\ o.jump_intensity >= 0 /\ o.jump_vol >= 0
      [] OTHER -> TRUE

\* C4: once a model has been constructed, every price() and greeks() call on
\* it completes with a numeric result and raises no error.
C4_NoFailureAfterConstruction ==
    (/\ outcome.op \in {"price", "greeks"}
     /\ obj = args
     /\ ValidParameters(obj)) =>
        (outcome.res.error = NoError /\ ~outcome.res.nan)

\* C5: every field of a constructed model holds the value it was constructed
\* with, so spot, strike, maturity and volatility stay strictly positive.
C5_Immutable ==
    (obj # NoObj /\ obj.cls \in OptionClasses) => (obj = args /\ ~NonPositive(obj))

\* C6: a run of a simulation model with a fixed seed consumes the same random
\* draws and returns the same result (price, and standard error where there is
\* one) as the recorded run of the same configuration, whichever calls were
\* made in between and whichever instance runs it.
C6_SeededRunsAgree ==
    (/\ outcome.op = "price"
     /\ ref # NoRun
     /\ obj = ref.cfg
     /\ outcome.option_type = ref.option_type) =>
        (outcome.res = ref.res /\ outcome.draws = ref.draws)

\* A seeded engine run with jumps has been repeated after other calls, and
\* it consumed draws and returned a price and a standard error.
C6_Repeated ==
    /\ outcome.op = "price"
    /\ ref # NoRun
    /\ ref.between
    /\ obj = ref.cfg
    /\ obj.cls = "MonteCarloEngine"
    /\ obj.jump_intensity > 0
    /\ outcome.option_type = ref.option_type
    /\ outcome.res.error = NoError
    /\ Len(outcome.draws) > 0

\* The price change the Binomial model finds for a maturity one day shorter.
OneDayChange(o) ==
    american_sibling_price([o EXCEPT !.maturity = o.maturity - OneDay]).value
    - AmericanOption_price(o).value

\* C7: the theta the Binomial model reports is per calendar day: the price
\* change over a one-day reduction of maturity.
C7_ThetaPerDay ==
    (/\ outcome.op = "greeks"
     /\ obj.cls = "AmericanOption"
     /\ outcome.res.error = NoError) =>
        outcome.res.value.theta = OneDayChange(obj)

\* The Analytic model of the contract of o.
Analytic(o) ==
    [f \in (DOMAIN o) \ {"steps"} |-> IF f = "cls" THEN "EuropeanOption" ELSE o[f]]

\* C8: for a valid contract with a dividend yield q > 0, the Binomial American
\* price is not below the Analytic European price of the same parameters
\* (up to 0.0005, above the rounding error of either price).
C8_EarlyExercisePremium ==
    (/\ outcome.op = "price"
     /\ obj.cls = "AmericanOption"
     /\ obj = args
     /\ obj.steps >= 1
     /\ obj.dividend_yield > 0
     /\ outcome.res.error = NoError) =>
        outcome.res.value + 5 >= EuropeanOption_price(Analytic(obj)).value

\* The nodes of the Trinomial grid of o.
Nodes(o) == barrier_spots(o, barrier_params(o), 2 * o.n_steps)

\* C9: a barrier above spot knocks out the nodes at or above it; a barrier
\* below spot knocks out the nodes at or below it and leaves the nodes above
\* it, the root among them, alive.
C9_KnockDirection ==
    (/\ outcome.op = "price"
     /\ obj.cls = "BarrierOption"
     /\ obj = args
     /\ outcome.res.error = NoError) =>
        /\ \A i \in 1..Len(Nodes(obj)) :
              knocked_out(obj, Nodes(obj)[i]) <=>
                  IF obj.barrier < obj.spot THEN Nodes(obj)[i] <= obj.barrier
                  ELSE Nodes(obj)[i] >= obj.barrier
        /\ obj.barrier < obj.spot => ~knocked_out(obj, obj.spot)

\* The Greeks each model derives.
GreekNames(cls) ==
    CASE cls = "EuropeanOption" -> {"delta", "gamma", "vega", "theta", "rho"}
      [] cls = "AmericanOption" -> {"delta", "gamma", "vega", "theta", "rho"}
      [] cls = "BarrierOption" -> {"delta", "gamma"}
      [] cls = "AsianOption" -> {"delta", "vega"}

\* C10 as stated: the mapping greeks() returns is keyed only by Greek names:
\* all five for the Analytic and Binomial models, delta and gamma for the
\* Trinomial model, delta and vega for the Asian model.
C10_OnlyGreekNames ==
    (outcome.op = "greeks" /\ outcome.res.error = NoError) =>
        DOMAIN outcome.res.value = GreekNames(obj.cls)

\* C10: the mapping greeks() returns is keyed by "price" and by the Greek
\* names of its model: all five for the Analytic and Binomial models, delta
\* and gamma for the Trinomial model, delta and vega for the Asian model.
C10_PriceAndGreekNames ==
    (outcome.op = "greeks" /\ outcome.res.error = NoError) =>
        DOMAIN outcome.res.value = {"price"} \cup GreekNames(obj.cls)

\* greeks() of a Trinomial model has returned its mapping.
C10_TrinomialMapping ==
    /\ outcome.op = "greeks"
    /\ obj.cls = "BarrierOption"
    /\ outcome.res.error = NoError
    /\ "gamma" \in DOMAIN outcome.res.value

\* C11: price() of a Trinomial model whose spot is at or past the barrier
\* (spot >= barrier) returns exactly 0 and raises no error.
C11_PastBarrierIsZero ==
    (/\ outcome.op = "price"
     /\ obj.cls = "BarrierOption"
     /\ obj = args
     /\ obj.n_steps >= 1
     /\ obj.spot >= obj.barrier) =>
        (outcome.res.error = NoError /\ outcome.res.value = 0)

\* n divided by its own truncated integer value, for either sign of n.
Normalised(n) == IF n < 0 THEN DivInt(-n, -Trunc(n)) ELSE DivInt(n, Trunc(n))

\* C13: the branch width the Trinomial model uses is n divided by its own
\* truncated integer value exactly when |n| > 2, for positive and negative n
\* alike, and n itself exactly when |n| <= 2.
C13_NormalisedBothSigns ==
    (/\ outcome.op = "price"
     /\ obj.cls = "BarrierOption"
     /\ obj = args
     /\ outcome.res.error = NoError) =>
        branch_nn(branch_n(obj)) =
            IF Abs(branch_n(obj)) > 2 * SCALE THEN Normalised(branch_n(obj))
            ELSE branch_n(obj)

\* The nodes whose cell holds the values of the last finished step: every
\* node after the maturity loop, the nodes of step t after the pass of step t.
LastWritten == IF lattice.t = obj.n_steps THEN 0..(2 * obj.n_steps)
               ELSE step_nodes(obj, lattice.t)

\* C12: after the maturity loop and after the pass of every earlier step,
\* every node of that step whose spot is >= barrier has value 0, and every
\* other maturity node holds the vanilla intrinsic payoff.
C12_KnockOutEveryStep ==
    lattice.pc \in {"loop", "done"} =>
        \A i \in LastWritten :
            /\ lattice.spots[i + 1] >= obj.barrier =>
                   lattice.option[i][current_column(lattice.t) + 1] = 0
            /\ (lattice.t = obj.n_steps /\ lattice.spots[i + 1] < obj.barrier) =>
                   lattice.option[i][maturity_column(obj) + 1] =
                       intrinsic(obj, lattice.spots[i + 1])

\* A pass of an earlier step has valued at 0 a node at or past the barrier
\* that has a neighbour worth more than 0 in the next step.
C12_KnockedBeforeMaturity ==
    /\ lattice.pc = "loop"
    /\ lattice.t < obj.n_steps
    /\ \E i \in step_nodes(obj, lattice.t) :
          /\ lattice.spots[i + 1] >= obj.barrier
          /\ lattice.option[i][current_column(lattice.t) + 1] = 0
          /\ lattice.option[i - 1][next_column(lattice.t) + 1] > 0

\* C16: every cell a pass of the backward induction reads lies in the
\* buffer (index in 0..2 * n_steps) and was written for step t + 1 (by the
\* maturity loop for the first pass), and the cell price() returns is
\* option[n_steps][0] as the pass of step 0 wrote it.
C16_BufferConsistent ==
    /\ lattice.pc \in {"loop", "done"} =>
          \A r \in lattice.reads :
              /\ r.i \in 0..(2 * obj.n_steps)
              /\ r.column = (lattice.t + 1) % 2
              /\ r.written = lattice.t + 1
    /\ lattice.pc = "done" =>
          /\ lattice.written[obj.n_steps][1] = 0
          /\ outcome.res.value = lattice.option[obj.n_steps][1]

\* price() has returned a price above 0 from a lattice of two steps or more
\* whose last pass read three cells.
C16_Returned ==
    /\ lattice.pc = "done"
    /\ obj.n_steps >= 2
    /\ Cardinality(lattice.reads) = 3
    /\ outcome.op = "price"
    /\ outcome.res.value > 0

\* The siblings greeks() of the model o builds (the Analytic model builds none).
SiblingsOf(o) ==
    CASE o.cls = "AmericanOption" -> AmericanOption_siblings(o)
      [] o.cls = "BarrierOption" -> BarrierOption_siblings(o)
      [] o.cls = "AsianOption" -> AsianOption_siblings(o)
      [] OTHER -> <<>>

\* The fixed bumps of each perturbed field.
Bumps(f) ==
    CASE f = "spot" -> {EpsSpot, -EpsSpot}
      [] f = "volatility" -> {EpsVol}
      [] f = "rate" -> {EpsRate}
      [] f = "maturity" -> {-OneDay}

\* C14: every sibling greeks() builds is of the class of the base and
\* differs from it in exactly one of spot, volatility, rate and maturity, by
\* the fixed bump of that field; every other field (steps, barrier, the path
\* and step counts, the random seed) is the base's.
C14_SiblingsDifferInOneField ==
    (outcome.op = "greeks" /\ outcome.res.error = NoError) =>
        \A k \in 1..Len(SiblingsOf(obj)) :
            /\ SiblingsOf(obj)[k].cls = obj.cls
            /\ DOMAIN SiblingsOf(obj)[k] = DOMAIN obj
            /\ \E f \in {"spot", "volatility", "rate", "maturity"} :
                  /\ SiblingsOf(obj)[k][f] - obj[f] \in Bumps(f)
                  /\ \A g \in (DOMAIN obj) \ {f} : SiblingsOf(obj)[k][g] = obj[g]

\* greeks() of an Asian model with random_seed = 2 has returned, its two
\* siblings built with that seed.
C14_SeededSiblings ==
    /\ outcome.op = "greeks"
    /\ outcome.res.error = NoError
    /\ obj.cls = "AsianOption"
    /\ obj.random_seed = 2
    /\ Len(SiblingsOf(obj)) = 2
    /\ \A k \in 1..2 : SiblingsOf(obj)[k].random_seed = 2

\* The payoffs a seeded engine o averages into its price.
PayoffsOf(o, option_type) ==
    engine_payoffs(o, option_type,
                   generate_paths(o, FloatOverInt(o.maturity, o.n_steps), 0).finals)

\* The payoffs xs discounted as the price is.
Discounted(o, xs) == [i \in 1..Len(xs) |-> Mul(Exp(-Mul(o.rate, o.maturity)), xs[i])]

\* The standard deviation of two or more values with divisor n - 1.
SampleStd(xs) == Sqrt(DivInt(SeqSum(SquaredDeviations(xs, Mean(xs))), Len(xs) - 1))

\* C15: the standard error price_european returns is the standard deviation
\* of the discounted payoffs, the quantity averaged into the price, divided by
\* sqrt(n_paths) (the deviation taken with divisor n - 1 or n, the result to
\* within one rounding unit).
C15_StdErrorOfPrice ==
    (/\ outcome.op = "price"
     /\ obj.cls = "MonteCarloEngine"
     /\ obj = args
     /\ ValidParameters(obj)
     /\ obj.seed # NoSeed
     /\ obj.n_paths >= 2
     /\ outcome.res.error = NoError) =>
        \E sd \in {SampleStd(Discounted(obj, PayoffsOf(obj, outcome.option_type))),
                   Std(Discounted(obj, PayoffsOf(obj, outcome.option_type)))} :
            Abs(outcome.res.value[2] - Div(sd, Sqrt(obj.n_paths * SCALE))) <= 1
====
